---- MODULE Spec2Model ----
(***************************************************************************)
(* The link manager of picomni-rover-web: App (connect, disconnectDevice,  *)
(* handleDisconnected, startWriteLoop) and BluetoothService (connect,      *)
(* disconnect, writeCommand, startCommandLoop, stopCommandLoop), run       *)
(* against a Web Bluetooth platform with a small set of devices.           *)
(*                                                                         *)
(* JavaScript runs one task at a time: an action is one task, that is the  *)
(* synchronous code of a handler up to the platform promise it awaits,     *)
(* together with the microtask continuations that need no platform event.  *)
(* The platform settles each pending promise in a task of its own.         *)
(*                                                                         *)
(* Platform objects follow the Web Bluetooth specification: requestDevice  *)
(* returns the same BluetoothDevice object for the same device, device.gatt*)
(* is one object per device, characteristic objects live for one GATT      *)
(* connection, a GATT disconnection (a drop, or server.disconnect())       *)
(* rejects the operations pending on that device and dispatches            *)
(* gattserverdisconnected synchronously to the listeners of the device.    *)
(***************************************************************************)
EXTENDS Integers, Sequences, FiniteSets, TLC

\* ------------------------------------------------------------------ bounds
MaxListeners == 2     \* listeners one event target may accumulate
MaxInFlight == 2      \* writeCommand promises pending at once
MaxPayload == 13      \* bytes in a notification payload

\* ------------------------------------------------------------------ values
Devices == {"d1", "d2"}
Undefined == "undefined"
Null == "null"
TimerId == "interval"
Commands == {"zero", "move", "nan"}

\* Errors a connect attempt can be rejected with: name and the cancellation
\* markers the lower-cased message contains.
ChooserCancelled == [name |-> "notfounderror", message |-> {"user cancelled", "cancelled"}]
ChooserFailed == [name |-> "securityerror", message |-> {}]
GattFailed == [name |-> "networkerror", message |-> {}]
RequestErrors == {ChooserCancelled, ChooserFailed}

\* Notification payloads: sequences of bytes. An odometry frame is three
\* little-endian float32, a float32 being known by its four bytes' bit pattern.
OdometryBytes == 12
Bytes == {0, 1}
Zeros(n) == [i \in 1..n |-> 0]
Payloads == UNION {[1..n -> Bytes] : n \in 0..MaxPayload}
NotifyValues == {Zeros(OdometryBytes - 1), Zeros(OdometryBytes)}

\* ------------------------------------------------------------------ state
VARIABLES
  \* App
  isConnecting, isDisconnecting, isConnected, userDisconnectRef, commandRef,
  \* BluetoothService
  device, server, writeChar, notifyChar, notifyHandler, disconnectHandler,
  writeLoopId, writeBusy,
  \* platform
  hasBluetooth, gattConnected, disconnectListeners, notifyListeners, inflight,
  \* positions of the asynchronous functions
  cpc, cdev, dpc,
  \* observers (history of the last task; they decide nothing)
  obs, userDisconnected, attemptDropAlerted, loopStopped

appVars == <<isConnecting, isDisconnecting, isConnected, userDisconnectRef, commandRef>>
bleVars == <<device, server, writeChar, notifyChar, notifyHandler, disconnectHandler,
             writeLoopId, writeBusy>>
platVars == <<hasBluetooth, gattConnected, disconnectListeners, notifyListeners, inflight>>
procVars == <<cpc, cdev, dpc>>
obsVars == <<obs, userDisconnected, attemptDropAlerted, loopStopped>>
vars == <<appVars, bleVars, platVars, procVars, obsVars>>

\* A characteristic object: the device it belongs to, and whether the GATT
\* connection it was resolved in is still up.
Char(d, live) == [dev |-> d, live |-> live]
NoChar == Char(Undefined, FALSE)

\* A pending writeCommand: the device written to, whether the loop that issued
\* it is still the running one, and whether a GATT disconnection has doomed it
\* to reject ("alerted": a disconnection the user was alerted of).
Write(d, cur, doom) == [dev |-> d, cur |-> cur, doom |-> doom]
Writes == [dev : Devices, cur : BOOLEAN, doom : {"no", "doomed", "alerted"}]

\* The pending writes are a bag: how many of each kind.
NoWrites == [w \in Writes |-> 0]
RECURSIVE SumOver(_, _)
SumOver(S, b) ==
  IF S = {} THEN 0 ELSE LET v == CHOOSE x \in S : TRUE IN b[v] + SumOver(S \ {v}, b)
InFlight(b) == SumOver(Writes, b)

\* The state as one record, with the per-task tallies: alerts shown,
\* onDisconnect invocations, unexpected-disconnect alerts.
Cur ==
  [isConnecting |-> isConnecting, isDisconnecting |-> isDisconnecting,
   isConnected |-> isConnected, userDisconnectRef |-> userDisconnectRef,
   commandRef |-> commandRef,
   device |-> device, server |-> server, writeChar |-> writeChar,
   notifyChar |-> notifyChar, notifyHandler |-> notifyHandler,
   disconnectHandler |-> disconnectHandler,
   writeLoopId |-> writeLoopId, writeBusy |-> writeBusy,
   gattConnected |-> gattConnected, disconnectListeners |-> disconnectListeners,
   notifyListeners |-> notifyListeners, inflight |-> inflight,
   cpc |-> cpc, cdev |-> cdev, dpc |-> dpc,
   userDisconnected |-> userDisconnected,
   attemptDropAlerted |-> attemptDropAlerted,
   loopStopped |-> loopStopped,
   alerts |-> 0, calls |-> 0, dropAlertsNow |-> 0, sends |-> 0, duplicates |-> 0,
   sent |-> "none", forwards |-> 0]

\* The task named ev ends in state s.
Commit(ev, s) ==
  /\ isConnecting' = s.isConnecting
  /\ isDisconnecting' = s.isDisconnecting
  /\ isConnected' = s.isConnected
  /\ userDisconnectRef' = s.userDisconnectRef
  /\ commandRef' = s.commandRef
  /\ device' = s.device
  /\ server' = s.server
  /\ writeChar' = s.writeChar
  /\ notifyChar' = s.notifyChar
  /\ notifyHandler' = s.notifyHandler
  /\ disconnectHandler' = s.disconnectHandler
  /\ writeLoopId' = s.writeLoopId
  /\ writeBusy' = s.writeBusy
  /\ gattConnected' = s.gattConnected
  /\ disconnectListeners' = s.disconnectListeners
  /\ notifyListeners' = s.notifyListeners
  /\ inflight' = s.inflight
  /\ cpc' = s.cpc
  /\ cdev' = s.cdev
  /\ dpc' = s.dpc
  /\ userDisconnected' = s.userDisconnected
  /\ attemptDropAlerted' = s.attemptDropAlerted
  /\ loopStopped' = s.loopStopped
  /\ hasBluetooth' = hasBluetooth
  /\ obs' = [ev |-> ev, alerts |-> s.alerts, calls |-> s.calls,
             dropAlertsNow |-> s.dropAlertsNow, sends |-> s.sends,
             duplicates |-> s.duplicates, sent |-> s.sent, forwards |-> s.forwards]


\* ------------------------------------------------- BluetoothService: loop

\* Every pending write now belongs to a loop that is no longer running.
Retire(b) ==
  [w \in Writes |-> IF w.cur THEN 0 ELSE b[w] + b[[w EXCEPT !.cur = TRUE]]]

\* A stop that clears the busy flag and leaves the timer running.
stopKeepsTimer(s) == [s EXCEPT !.writeBusy = FALSE, !.loopStopped = TRUE]

\* stopCommandLoop(): clearInterval when a timer is set; the busy flag is
\* cleared either way. A write already issued is not cancelled.
stopCommandLoop(s) ==
  LET cleared == IF s.writeLoopId # Null
                 THEN [s EXCEPT !.writeLoopId = Null, !.inflight = Retire(@)]
                 ELSE s
  IN [cleared EXCEPT !.writeBusy = FALSE, !.loopStopped = TRUE]

\* startCommandLoop(): a no-op while a timer is set, otherwise setInterval.
startCommandLoop(s) ==
  IF s.writeLoopId # Null THEN s
  ELSE [s EXCEPT !.writeLoopId = TimerId, !.loopStopped = FALSE]

\* showError(message): window.alert.
showError(s) == [s EXCEPT !.alerts = @ + 1]

\* A catch that reports the failure and leaves the timer running.
tickFailedKeepsLoop(s) == [showError(s) EXCEPT !.writeBusy = FALSE]

\* A catch that also gives the session up.
tickFailedClosesSession(s) ==
  [stopCommandLoop(showError(s)) EXCEPT !.writeBusy = FALSE, !.isConnected = FALSE,
                                        !.writeChar = NoChar]

\* The catch and finally of the interval callback: onError (showError, as
\* startWriteLoop passes it), stopCommandLoop, then the busy flag is cleared.
tickFailed(s) == [stopCommandLoop(showError(s)) EXCEPT !.writeBusy = FALSE]

\* A validation that lets every command through.
hasNaNNever(command) == FALSE

\* Number.isNaN over the command's fields.
hasNaN(command) == command = "nan"

\* An accessor that returns the command of the render it was created in.
getCommandCaptured(s) == "zero"

\* The accessor startWriteLoop hands to the loop: () => commandRef.current.
getCommand(s) == s.commandRef

\* The interval callback up to its await: dropped when busy; otherwise it
\* takes the current command, rejects NaN, and writeCommand either throws
\* (no write characteristic) or issues the write and suspends.
tick(s) ==
  IF s.writeBusy THEN s
  ELSE LET b == [s EXCEPT !.writeBusy = TRUE]
           command == getCommand(b)
       IN IF hasNaN(command) THEN tickFailed(b)
          ELSE IF b.writeChar = NoChar THEN tickFailed(b)
          ELSE [b EXCEPT
                  !.inflight[Write(b.writeChar.dev, TRUE,
                                   IF b.writeChar.live THEN "no" ELSE "doomed")] = @ + 1,
                  !.sends = @ + 1,
                  !.sent = command]

\* A pending write w settles: the callback resumes after its await. The
\* alert of a rejection that an alerted disconnection caused is a duplicate.
writeSettled(s, w, ok) ==
  LET r == [s EXCEPT !.inflight[w] = @ - 1]
  IN IF ok THEN [r EXCEPT !.writeBusy = FALSE]
     ELSE [tickFailed(r) EXCEPT !.duplicates =
             IF w.doom = "alerted" THEN @ + 1 ELSE @]

\* ------------------------------------------------- App: disconnect handling

\* A handler that leaves the loop running when the link is lost.
handleDisconnectedKeepsLoop(s) ==
  LET a == [s EXCEPT !.calls = @ + 1, !.isConnected = FALSE]
      b == IF ~a.userDisconnectRef
           THEN [a EXCEPT !.alerts = @ + 1, !.dropAlertsNow = @ + 1]
           ELSE a
  IN [b EXCEPT !.userDisconnectRef = FALSE]

\* handleDisconnected(): stops the loop, clears isConnected, alerts unless the
\* disconnect is flagged as the user's, and clears the flag.
handleDisconnected(s) ==
  LET a == [stopCommandLoop([s EXCEPT !.calls = @ + 1]) EXCEPT !.isConnected = FALSE]
      b == IF ~a.userDisconnectRef
           THEN [a EXCEPT !.alerts = @ + 1, !.dropAlertsNow = @ + 1]
           ELSE a
  IN [b EXCEPT !.userDisconnectRef = FALSE]

\* gattserverdisconnected dispatched to n listeners, each calling
\* handlers.onDisconnect.
RECURSIVE FireDisconnected(_, _)
FireDisconnected(n, s) ==
  IF n = 0 THEN s ELSE FireDisconnected(n - 1, handleDisconnected(s))

\* The pending writes on d that were not doomed yet now are, as tag says.
Doom(b, d, tag) ==
  [w \in Writes |->
     IF w.dev # d THEN b[w]
     ELSE IF w.doom = "no" THEN 0
     ELSE IF w.doom = tag THEN b[w] + b[[w EXCEPT !.doom = "no"]]
     ELSE b[w]]

\* The platform's GATT disconnection of device d: the connection is down,
\* the characteristic objects of the connection are dead (their listeners
\* with them), pending writes on d will reject, and the event is dispatched
\* to every listener still attached to the device.
GattDisconnected(s, d, tag) ==
  LET a == [s EXCEPT
              !.gattConnected[d] = FALSE,
              !.notifyListeners[d] = 0,
              !.writeChar = IF @.dev = d THEN Char(d, FALSE) ELSE @,
              !.notifyChar = IF @.dev = d THEN Char(d, FALSE) ELSE @,
              !.notifyHandler = IF @ = d THEN "detached" ELSE @,
              !.inflight = Doom(@, d, tag)]
  IN FireDisconnected(a.disconnectListeners[d], a)

\* ------------------------------------------------- notifications

\* DataView.getFloat32(offset, true): the bit pattern of the four bytes at
\* offset, least significant byte first.
GetFloat32(view, offset) ==
  view[offset + 1] + 256 * view[offset + 2] + 65536 * view[offset + 3]
    + 16777216 * view[offset + 4]

DecodeError == [ok |-> FALSE, x |-> 0, y |-> 0, yaw |-> 0]

\* A decoder that takes frames of exactly twelve bytes only.
decodeOdometryExact(view) ==
  IF Len(view) # OdometryBytes THEN DecodeError
  ELSE [ok |-> TRUE, x |-> GetFloat32(view, 0), y |-> GetFloat32(view, 4),
        yaw |-> GetFloat32(view, 8)]

\* decodeOdometry(view): throws on fewer than twelve bytes, otherwise reads
\* x, y and yaw at offsets 0, 4 and 8.
decodeOdometry(view) ==
  IF Len(view) < OdometryBytes THEN DecodeError
  ELSE [ok |-> TRUE, x |-> GetFloat32(view, 0), y |-> GetFloat32(view, 4),
        yaw |-> GetFloat32(view, 8)]

\* A handler that gives the loop up on a frame it cannot decode.
onNotifyStopsLoop(s, value) ==
  IF decodeOdometry(value).ok THEN [s EXCEPT !.forwards = @ + 1]
  ELSE stopCommandLoop(showError(s))

\* The onNotify handler of App.connect: decode and push to the canvas, or
\* show the decode error.
onNotify(s, value) ==
  IF decodeOdometry(value).ok THEN [s EXCEPT !.forwards = @ + 1]
  ELSE showError(s)

\* characteristicvaluechanged reaches the n listeners on the characteristic;
\* a listener returns at once when the event carries no value.
RECURSIVE FireNotify(_, _, _, _)
FireNotify(n, s, present, value) ==
  IF n = 0 THEN s
  ELSE FireNotify(n - 1, IF present THEN onNotify(s, value) ELSE s, present, value)

\* ------------------------------------------------- teardown

\* A finally that leaves the connecting indicator on.
connectFinallyStaysConnecting(s) == [s EXCEPT !.cpc = "idle"]

\* The finally of App.connect.
connectFinally(s) == [s EXCEPT !.isConnecting = FALSE, !.cpc = "idle"]

\* A teardown that leaves the handles of the session in place.
teardownKeepsHandles(s) ==
  LET a == [s EXCEPT !.notifyHandler = Undefined]
      b == IF a.server # Undefined /\ a.gattConnected[a.server]
           THEN GattDisconnected(a, a.server, "doomed")
           ELSE a
      c == IF b.device # Undefined /\ b.disconnectHandler # Undefined
              /\ b.disconnectHandler = b.device
           THEN [b EXCEPT !.disconnectListeners[b.device] = @ - 1]
           ELSE b
      f == [c EXCEPT !.isConnected = FALSE, !.isDisconnecting = FALSE,
                     !.userDisconnectRef = FALSE, !.dpc = "idle"]
  IN IF f.cpc = "teardown" THEN connectFinally(f) ELSE f

\* BluetoothService.disconnect() after #stopNotifications' await, and the
\* rest of disconnectDevice(); when App.connect's catch is the caller, its
\* finally follows.
teardownRest(s) ==
  LET a == [s EXCEPT !.notifyHandler = Undefined]
      b == IF a.server # Undefined /\ a.gattConnected[a.server]
           THEN GattDisconnected(a, a.server, "doomed")
           ELSE a
      c == IF b.device # Undefined /\ b.disconnectHandler # Undefined
              /\ b.disconnectHandler = b.device
           THEN [b EXCEPT !.disconnectListeners[b.device] = @ - 1]
           ELSE b
      e == [c EXCEPT !.device = Undefined, !.server = Undefined,
                     !.writeChar = NoChar, !.notifyChar = NoChar,
                     !.disconnectHandler = Undefined]
      f == [e EXCEPT !.isConnected = FALSE, !.isDisconnecting = FALSE,
                     !.userDisconnectRef = FALSE, !.dpc = "idle"]
  IN IF f.cpc = "teardown" THEN connectFinally(f) ELSE f

\* A #stopNotifications whose failure leaves disconnect() by exception.
stopNotificationsRaises(s, ok) ==
  IF ok THEN teardownRest(s)
  ELSE LET f == [s EXCEPT !.dpc = "idle"]
       IN IF f.cpc = "teardown" THEN connectFinally(f) ELSE f

\* stopNotifications() settled: a rejection is caught and logged, and
\* disconnect() goes on either way.
stopNotificationsSettled(s, ok) ==
  IF ok THEN teardownRest(s) ELSE teardownRest(s)

\* #stopNotifications up to its await: the listener is removed from the
\* characteristic; stopNotifications() is pending on the platform when the
\* characteristic's connection is up, and rejects at once (caught) when not.
stopNotifications(s) ==
  IF s.notifyChar # NoChar /\ s.notifyHandler # Undefined
  THEN LET a == IF s.notifyChar.live /\ s.notifyHandler = s.notifyChar.dev
                THEN [s EXCEPT !.notifyListeners[s.notifyChar.dev] = @ - 1,
                               !.notifyHandler = "detached"]
                ELSE s
       IN IF a.notifyChar.live THEN [a EXCEPT !.dpc = "stopNotifications"]
          ELSE teardownRest(a)
  ELSE teardownRest(s)

\* BluetoothService.disconnect() run to its end, stopNotifications() having
\* resolved.
disconnectCompleted(s) ==
  LET a == stopNotifications(s)
  IN IF a.dpc = "stopNotifications" THEN stopNotificationsSettled(a, TRUE) ELSE a

\* disconnectDevice(): flag the disconnect as the user's, stop the loop,
\* then BluetoothService.disconnect().
disconnectDevice(s) ==
  stopNotifications(stopCommandLoop(
    [s EXCEPT !.userDisconnectRef = TRUE, !.isDisconnecting = TRUE]))

\* ------------------------------------------------- App.connect

\* A test that knows the one-l spelling only.
isUserCanceledOnly(error) ==
  \/ "user canceled" \in error.message
  \/ "usercanceled" \in error.message

\* isUserCancelledError(error), over the lower-cased name and message.
isUserCancelledError(error) ==
  \/ "user cancelled" \in error.message
  \/ "user canceled" \in error.message
  \/ "usercancelled" \in error.message
  \/ "usercanceled" \in error.message
  \/ (error.name = "notfounderror" /\ "cancelled" \in error.message)

\* A guard that forgets the attempt in progress.
connectBusyOnlyDisconnecting(s) == s.isDisconnecting

\* The early return of connect(): an attempt or a teardown is in progress.
connectBusy(s) == s.isConnecting \/ s.isDisconnecting

\* connect() up to its first await.
connectCall(s) ==
  IF connectBusy(s) THEN s
  ELSE IF ~hasBluetooth THEN showError(s)
  ELSE [stopCommandLoop([s EXCEPT !.userDisconnectRef = FALSE,
                                  !.userDisconnected = FALSE])
          EXCEPT !.isConnecting = TRUE, !.cpc = "requestDevice",
                 !.attemptDropAlerted = FALSE]

\* startWriteLoop(), whose guard reads the isDisconnecting and isConnecting
\* of the render it closes over.
startWriteLoop(s, render) ==
  IF render.isDisconnecting \/ render.isConnecting THEN s
  ELSE startCommandLoop(stopCommandLoop(s))

\* The render connect() was called in: connect's own guard passed on it.
RenderOfConnect == [isConnecting |-> FALSE, isDisconnecting |-> FALSE]

\* requestDevice resolved with device d: the disconnect listener is added
\* and stored, then gatt.connect() is pending.
deviceChosen(s, d) ==
  [s EXCEPT !.cdev = d, !.disconnectListeners[d] = @ + 1,
            !.disconnectHandler = d, !.cpc = "gattConnect"]

\* gatt.connect() resolved; getPrimaryService is pending.
gattOpened(s) ==
  [s EXCEPT !.gattConnected[s.cdev] = TRUE, !.cpc = "getPrimaryService"]

\* getPrimaryService resolved; getCharacteristic is pending.
serviceResolved(s) == [s EXCEPT !.cpc = "getCharacteristic"]

\* getCharacteristic resolved: the notify handler is stored and added to the
\* characteristic, then startNotifications() is pending.
characteristicResolved(s) ==
  [s EXCEPT !.notifyHandler = s.cdev, !.notifyListeners[s.cdev] = @ + 1,
            !.cpc = "startNotifications"]

\* startNotifications() resolved: the session handles are stored, and
\* connect() goes on: setIsConnected(true), startWriteLoop(), finally.
connected(s) ==
  LET a == [s EXCEPT !.device = s.cdev, !.server = s.cdev,
                     !.writeChar = Char(s.cdev, TRUE),
                     !.notifyChar = Char(s.cdev, TRUE)]
      b == [a EXCEPT !.isConnected = TRUE]
  IN connectFinally(startWriteLoop(b, RenderOfConnect))

\* The catch of connect(): silent on a user cancel, otherwise an alert and
\* disconnectDevice(), which may suspend; then the finally.
connectFailed(s, error) ==
  IF isUserCancelledError(error) THEN connectFinally(s)
  ELSE disconnectDevice(
         [showError(s) EXCEPT !.isConnected = FALSE, !.cpc = "teardown"])

\* A step of the attempt rejected after the device was chosen; the alert of
\* a rejection that an alerted drop of the device caused is a duplicate.
gattFailed(s) ==
  connectFailed([s EXCEPT !.duplicates = IF s.attemptDropAlerted THEN @ + 1 ELSE @],
                GattFailed)

\* An unexpected link loss of device d. The writes it dooms, and an attempt
\* pending on d, are marked when the loss alerts the user.
dropped(s, d) ==
  LET alerted == GattDisconnected(s, d, "doomed").dropAlertsNow > 0
      a == GattDisconnected(s, d, IF alerted THEN "alerted" ELSE "doomed")
  IN [a EXCEPT !.attemptDropAlerted =
        @ \/ (alerted /\ s.cdev = d
                /\ s.cpc \in {"getPrimaryService", "getCharacteristic",
                              "startNotifications"})]

Init ==
  /\ isConnecting = FALSE
  /\ isDisconnecting = FALSE
  /\ isConnected = FALSE
  /\ userDisconnectRef = FALSE
  /\ commandRef = "zero"
  /\ device = Undefined
  /\ server = Undefined
  /\ writeChar = NoChar
  /\ notifyChar = NoChar
  /\ notifyHandler = Undefined
  /\ disconnectHandler = Undefined
  /\ writeLoopId = Null
  /\ writeBusy = FALSE
  /\ hasBluetooth \in BOOLEAN
  /\ gattConnected = [d \in Devices |-> FALSE]
  /\ disconnectListeners = [d \in Devices |-> 0]
  /\ notifyListeners = [d \in Devices |-> 0]
  /\ inflight = NoWrites
  /\ cpc = "idle"
  /\ cdev = Undefined
  /\ dpc = "idle"
  /\ obs = [ev |-> "init", alerts |-> 0, calls |-> 0, dropAlertsNow |-> 0, sends |-> 0,
            duplicates |-> 0, sent |-> "none", forwards |-> 0]
  /\ userDisconnected = FALSE
  /\ attemptDropAlerted = FALSE
  /\ loopStopped = FALSE

\* ------------------------------------------------------------------ actions

\* The joysticks' onChange: commandRef.current takes a new value.
SetCommand ==
  \E c \in Commands :
    /\ c # commandRef
    /\ Commit("SetCommand", [Cur EXCEPT !.commandRef = c])

\* connect() is called while the button offers it (not connected); the
\* listener tallies are capped where an attempt starts.
ConnectCall ==
  /\ ~isConnected
  /\ connectBusy(Cur) \/ \A d \in Devices :
        disconnectListeners[d] < MaxListeners /\ notifyListeners[d] < MaxListeners
  /\ Commit("ConnectCall", connectCall(Cur))

RequestDeviceResolve ==
  /\ cpc = "requestDevice"
  /\ \E d \in Devices : Commit("RequestDeviceResolve", deviceChosen(Cur, d))

RequestDeviceReject ==
  /\ cpc = "requestDevice"
  /\ \E e \in RequestErrors :
       Commit(IF e = ChooserCancelled THEN "RequestDeviceCancel" ELSE "RequestDeviceReject",
              connectFailed(Cur, e))

GattConnectResolve ==
  /\ cpc = "gattConnect"
  /\ Commit("GattConnectResolve", gattOpened(Cur))

GetPrimaryServiceResolve ==
  /\ cpc = "getPrimaryService"
  /\ gattConnected[cdev]
  /\ Commit("GetPrimaryServiceResolve", serviceResolved(Cur))

GetCharacteristicResolve ==
  /\ cpc = "getCharacteristic"
  /\ gattConnected[cdev]
  /\ Commit("GetCharacteristicResolve", characteristicResolved(Cur))

StartNotificationsResolve ==
  /\ cpc = "startNotifications"
  /\ gattConnected[cdev]
  /\ Commit("StartNotificationsResolve", connected(Cur))

\* gatt.connect() (on a server not connected yet), getPrimaryService,
\* getCharacteristic or startNotifications rejected.
GattReject ==
  /\ cpc \in {"gattConnect", "getPrimaryService", "getCharacteristic", "startNotifications"}
  /\ cpc = "gattConnect" => ~gattConnected[cdev]
  /\ Commit("GattReject", gattFailed(Cur))

\* The button while connected and not busy: disconnectDevice().
DisconnectClick ==
  /\ isConnected /\ ~isConnecting /\ ~isDisconnecting
  /\ Commit("DisconnectClick", disconnectDevice([Cur EXCEPT !.userDisconnected = TRUE]))

\* notifyChar.stopNotifications() resolved or rejected.
StopNotificationsSettle ==
  /\ dpc = "stopNotifications"
  /\ \E ok \in BOOLEAN :
       Commit(IF cpc = "teardown"
              THEN (IF ok THEN "ConnectTeardownSettle" ELSE "ConnectTeardownReject")
              ELSE (IF ok THEN "StopNotificationsSettle" ELSE "StopNotificationsReject"),
              stopNotificationsSettled(Cur, ok))

\* A connected device notifies; the event may carry no value.
Notify ==
  \E d \in Devices, present \in BOOLEAN, value \in NotifyValues :
    /\ gattConnected[d]
    /\ notifyListeners[d] > 0
    /\ Commit("Notify", FireNotify(notifyListeners[d], Cur, present, value))

\* The interval timer fires.
Tick ==
  /\ writeLoopId # Null
  /\ writeBusy \/ InFlight(inflight) < MaxInFlight
  /\ Commit("Tick", tick(Cur))

\* A pending write resolves (not after its device disconnected) or rejects.
WriteSettle ==
  \E w \in Writes, ok \in BOOLEAN :
    /\ inflight[w] > 0
    /\ ok => w.doom = "no"
    /\ Commit("WriteSettle", writeSettled(Cur, w, ok))

\* The link to a connected device is lost.
Drop ==
  \E d \in Devices :
    /\ gattConnected[d]
    /\ Commit("Drop", dropped(Cur, d))

Next ==
  \/ SetCommand
  \/ ConnectCall
  \/ RequestDeviceResolve
  \/ RequestDeviceReject
  \/ GattConnectResolve
  \/ GetPrimaryServiceResolve
  \/ GetCharacteristicResolve
  \/ StartNotificationsResolve
  \/ GattReject
  \/ DisconnectClick
  \/ StopNotificationsSettle
  \/ Tick
  \/ WriteSettle
  \/ Drop

Spec == Init /\ [][Next]_vars

\* The sessions of Spec with their notifications delivered, the joystick at
\* rest.
NextNotify ==
  \/ ConnectCall
  \/ RequestDeviceResolve
  \/ RequestDeviceReject
  \/ GattConnectResolve
  \/ GetPrimaryServiceResolve
  \/ GetCharacteristicResolve
  \/ StartNotificationsResolve
  \/ GattReject
  \/ DisconnectClick
  \/ StopNotificationsSettle
  \/ Notify
  \/ Tick
  \/ WriteSettle
  \/ Drop

SpecNotify == Init /\ [][NextNotify]_vars

\* The sessions of Spec with the joystick at rest, and with the promises
\* that connect() and a teardown wait for settling in the end. A promise
\* connect() or BluetoothService.connect() awaits is pending exactly while
\* cpc is one of AwaitedByConnect and its settling moves cpc on; the
\* stopNotifications() a teardown awaits is pending exactly while dpc says
\* so and its settling, either way, returns dpc to idle.
AwaitedByConnect ==
  {"requestDevice", "gattConnect", "getPrimaryService", "getCharacteristic",
   "startNotifications"}
ConnectAwaitEnds ==
  /\ cpc \in AwaitedByConnect
  /\ cpc' \in (AwaitedByConnect \cup {"idle", "teardown"}) \ {cpc}
TeardownAwaitEnds == dpc = "stopNotifications" /\ dpc' = "idle"

Fairness == WF_cpc(ConnectAwaitEnds) /\ WF_dpc(TeardownAwaitEnds)

NextLive ==
  \/ ConnectCall
  \/ RequestDeviceResolve
  \/ RequestDeviceReject
  \/ GattConnectResolve
  \/ GetPrimaryServiceResolve
  \/ GetCharacteristicResolve
  \/ StartNotificationsResolve
  \/ GattReject
  \/ DisconnectClick
  \/ StopNotificationsSettle
  \/ Tick
  \/ WriteSettle
  \/ Drop

SpecLive == Init /\ [][NextLive]_vars /\ Fairness

\* decodeOdometry on its own: a payload arrives and is decoded, the
\* application idle.
InitCodec ==
  /\ isConnecting = FALSE
  /\ isDisconnecting = FALSE
  /\ isConnected = FALSE
  /\ userDisconnectRef = FALSE
  /\ commandRef = "zero"
  /\ device = Undefined
  /\ server = Undefined
  /\ writeChar = NoChar
  /\ notifyChar = NoChar
  /\ notifyHandler = Undefined
  /\ disconnectHandler = Undefined
  /\ writeLoopId = Null
  /\ writeBusy = FALSE
  /\ hasBluetooth = TRUE
  /\ gattConnected = [d \in Devices |-> FALSE]
  /\ disconnectListeners = [d \in Devices |-> 0]
  /\ notifyListeners = [d \in Devices |-> 0]
  /\ inflight = NoWrites
  /\ cpc = "idle"
  /\ cdev = Undefined
  /\ dpc = "idle"
  /\ \E view \in Payloads : obs = [ev |-> "view", view |-> view, result |-> DecodeError]
  /\ userDisconnected = FALSE
  /\ attemptDropAlerted = FALSE
  /\ loopStopped = FALSE

Decode ==
  /\ obs.ev = "view"
  /\ obs' = [ev |-> "decodeOdometry", view |-> obs.view,
             result |-> decodeOdometry(obs.view)]
  /\ UNCHANGED <<appVars, bleVars, platVars, procVars, userDisconnected,
                 attemptDropAlerted, loopStopped>>

NextCodec == Decode

SpecCodec == InitCodec /\ [][NextCodec]_vars

\* ------------------------------------------------------------------ claims

Live(count) == SumOver(Devices, count)
CurrentLoopWrites == SumOver({w \in Writes : w.cur}, inflight)

\* C1: at most one command transmission (a writeCommand whose promise has
\* not settled) is in flight at any time.
C1_AtMostOneInFlight == InFlight(inflight) <= 1

\* C2: the running loop never has two of its own sends unresolved at once.
C2_LoopSingleFlight == CurrentLoopWrites <= 1

\* C3: once disconnectDevice() has been called by the user, and until the
\* next connect, no unexpected-disconnect alert is shown.
C3_NoAlertAfterDisconnect == userDisconnected => obs.dropAlertsNow = 0

\* C4: an unexpected link loss (a drop outside a teardown) invokes
\* handlers.onDisconnect exactly once.
C4_OnDisconnectOncePerDrop == (obs.ev = "Drop" /\ dpc = "idle") => obs.calls = 1

\* C5: one failure, one alert: a link drop shows at most one alert in its own
\* task, and no rejection it causes (a pending send, a pending connect step)
\* shows another.
C5_OneAlertPerFailure ==
  /\ obs.ev = "Drop" => obs.alerts <= 1
  /\ obs.duplicates = 0

\* C6: when a connect attempt that had chosen a device has failed and its
\* teardown is over, the device's channel is not connected and no disconnect
\* observer or notification listener is attached to it.
C6_FailedConnectLeavesNothing ==
  (obs.ev \in {"GattReject", "ConnectTeardownSettle", "ConnectTeardownReject"} /\ cpc = "idle")
    => /\ ~gattConnected[cdev]
       /\ disconnectListeners[cdev] = 0
       /\ notifyListeners[cdev] = 0

\* C7: at most one session is live: never two channels connected, never two
\* disconnect observers or two notification listeners attached.
C7_OneSessionLive ==
  /\ Cardinality({d \in Devices : gattConnected[d]}) <= 1
  /\ Live(disconnectListeners) <= 1
  /\ Live(notifyListeners) <= 1

\* C8: a connect() call made while a connect attempt is in flight changes
\* nothing: no second device selection, no second channel open.
C8_ConcurrentConnectIgnored ==
  [][(cpc # "idle" /\ obs'.ev = "ConnectCall")
       => UNCHANGED <<appVars, bleVars, platVars, procVars>>]_vars
C8_Witness == obs.ev = "ConnectCall" /\ cpc = "getPrimaryService"

\* C9: no command send is in flight while disconnectDevice() is tearing the
\* session down.
C9_NoSendDuringTeardown == isDisconnecting => InFlight(inflight) = 0

\* C10: stopCommandLoop() is idempotent; once it has returned, and until
\* startCommandLoop starts a loop, the busy flag is clear, no timer is set,
\* no tick fires and no send is issued.
C10_StopCommandLoop ==
  [][/\ stopCommandLoop(stopCommandLoop(Cur)) = stopCommandLoop(Cur)
     /\ loopStopped => /\ ~writeBusy
                       /\ writeLoopId = Null
                       /\ obs'.ev # "Tick"
                       /\ obs'.sends = 0]_vars
C10_Witness == loopStopped /\ obs.ev = "DisconnectClick" /\ InFlight(inflight) > 0

\* The link and the session, as the command loop must leave them.
sessionVars == <<isConnecting, isDisconnecting, isConnected, userDisconnectRef,
                 device, server, writeChar, notifyChar, notifyHandler,
                 disconnectHandler, gattConnected, disconnectListeners,
                 notifyListeners, cpc, cdev, dpc>>
HealthyWrites == SumOver({w \in Writes : w.doom = "no"}, inflight)

\* C11: a tick that fetches a NaN command reports the failure (one alert),
\* stops the loop and issues no send.
C11_NaNTickStopsWithoutSend ==
  [][(obs'.ev = "Tick" /\ ~writeBusy /\ commandRef = "nan")
       => /\ obs'.alerts = 1
          /\ obs'.sends = 0
          /\ InFlight(inflight') = InFlight(inflight)
          /\ writeLoopId' = Null
          /\ ~writeBusy']_vars
C11_Witness ==
  /\ obs.ev = "Tick" /\ commandRef = "nan" /\ obs.alerts = 1
  /\ writeLoopId = Null /\ writeChar # NoChar

\* C12: a tick whose validation or send fails reports the failure once and
\* the loop is over: the timer is cleared and no send is retried. A tick
\* fails on a NaN command or a missing write characteristic, a settling
\* send fails whenever no pending send can still resolve.
C12_FailureTerminatesLoop ==
  [][/\ (obs'.ev \in {"Tick", "WriteSettle"} /\ obs'.alerts > 0)
          => /\ obs'.alerts = 1
             /\ obs'.sends = 0
             /\ writeLoopId' = Null
             /\ loopStopped'
     /\ (obs'.ev = "Tick" /\ ~writeBusy /\ (commandRef = "nan" \/ writeChar = NoChar))
          => obs'.alerts = 1
     /\ (obs'.ev = "WriteSettle" /\ HealthyWrites = 0)
          => obs'.alerts = 1]_vars
C12_Witness ==
  /\ obs.ev = "WriteSettle" /\ obs.alerts = 1 /\ writeLoopId = Null
  /\ isConnected /\ device # Undefined /\ gattConnected[device]

\* C13: a timer firing while a send of the running loop is outstanding is
\* dropped: it changes nothing and issues no send.
C13_TickDroppedWhileSendOutstanding ==
  [][(obs'.ev = "Tick" /\ CurrentLoopWrites > 0)
       => /\ obs'.sends = 0
          /\ UNCHANGED <<appVars, bleVars, platVars, procVars>>]_vars

\* C14: a failed send or a NaN command ends the loop and nothing else: the
\* session handles, the channel, the listeners and the link state are as
\* they were.
C14_LoopFailureKeepsSession ==
  [][(obs'.ev \in {"Tick", "WriteSettle"} /\ obs'.alerts > 0)
       => UNCHANGED sessionVars]_vars
C14_Witness ==
  /\ obs.ev \in {"Tick", "WriteSettle"} /\ obs.alerts = 1 /\ writeLoopId = Null
  /\ isConnected /\ writeChar = Char(device, TRUE) /\ gattConnected[device]

\* C15: a notification whose payload does not decode is shown as an error
\* by each listener it reaches and changes nothing else: link, session,
\* loop and listeners are as before, so the next notification is decoded
\* and forwarded like any other. A payload that decodes is forwarded and
\* shows nothing.
C15_BadNotificationOnlyReported ==
  [][obs'.ev = "Notify"
       => /\ UNCHANGED <<appVars, bleVars, platVars, procVars>>
          /\ obs'.sends = 0 /\ obs'.calls = 0
          /\ \E d \in Devices :
               /\ gattConnected[d] /\ notifyListeners[d] > 0
               /\ <<obs'.alerts, obs'.forwards>> \in
                    {<<0, 0>>, <<notifyListeners[d], 0>>, <<0, notifyListeners[d]>>}]_vars
C15_Witness ==
  /\ obs.ev = "Notify" /\ obs.alerts = 1 /\ obs.forwards = 0
  /\ isConnected /\ writeLoopId # Null /\ notifyListeners[device] = 1

\* C16: when the user cancels the device chooser, connect() ends without an
\* alert and without teardown: the service and the platform are untouched
\* and the link is idle again.
C16_CancelIsSilent ==
  [][obs'.ev = "RequestDeviceCancel"
       => /\ obs'.alerts = 0
          /\ UNCHANGED <<bleVars, platVars, userDisconnectRef, dpc>>
          /\ ~isConnecting' /\ ~isDisconnecting' /\ ~isConnected'
          /\ cpc' = "idle"]_vars
C16_Witness ==
  /\ obs.ev = "RequestDeviceCancel" /\ obs.alerts = 0
  /\ ~isConnecting /\ ~isConnected /\ cpc = "idle"

\* C17: a successful connect leaves the loop's timer set, and every send
\* carries the command held in commandRef at the tick that issues it.
C17_SendCarriesCurrentCommand ==
  /\ obs.ev = "StartNotificationsResolve" => writeLoopId = TimerId
  /\ obs.sends > 0 => (obs.sends = 1 /\ obs.sent = commandRef)
C17_Witness == obs.ev = "Tick" /\ obs.sends = 1 /\ obs.sent = "move"

\* What BluetoothService holds and what the platform holds for it.
serviceState(s) ==
  <<s.device, s.server, s.writeChar, s.notifyChar, s.notifyHandler,
    s.disconnectHandler, s.writeLoopId, s.writeBusy, s.gattConnected,
    s.disconnectListeners, s.notifyListeners, s.inflight>>
NeverOpened ==
  /\ device = Undefined /\ server = Undefined /\ writeChar = NoChar
  /\ notifyChar = NoChar /\ notifyHandler = Undefined /\ disconnectHandler = Undefined

\* C18: disconnect() twice leaves the service and the platform as
\* disconnect() once; disconnect() on a service that holds no session, and
\* stopCommandLoop() with no timer set, leave them unchanged.
C18_DisconnectIdempotent ==
  dpc = "idle"
    => /\ serviceState(disconnectCompleted(disconnectCompleted(Cur)))
            = serviceState(disconnectCompleted(Cur))
       /\ NeverOpened => serviceState(disconnectCompleted(Cur)) = serviceState(Cur)
       /\ writeLoopId = Null => serviceState(stopCommandLoop(Cur)) = serviceState(Cur)
C18_Witness ==
  /\ obs.ev = "RequestDeviceReject" /\ obs.alerts = 1 /\ NeverOpened
  /\ cpc = "idle" /\ dpc = "idle" /\ loopStopped

\* The rest of disconnect(): the channel is closed while the disconnect
\* observer is still attached (it is called with the leaked ones), then the
\* observer is detached and the handles are cleared.
TeardownCompletes ==
  /\ dpc' = "idle" /\ ~isDisconnecting'
  /\ device' = Undefined /\ server' = Undefined
  /\ writeChar' = NoChar /\ notifyChar' = NoChar
  /\ notifyHandler' = Undefined /\ disconnectHandler' = Undefined
  /\ (server # Undefined /\ gattConnected[server])
       => (~gattConnected'[server] /\ obs'.calls = disconnectListeners[server])
  /\ (device # Undefined /\ disconnectHandler = device)
       => disconnectListeners'[device] = disconnectListeners[device] - 1

\* C19: when stopNotifications() rejects, whether after a wait or at once
\* on a characteristic whose connection is gone, disconnect() still
\* completes: channel closed if connected, then observer detached, handles
\* cleared.
C19_TeardownSurvivesUnsubscribeFailure ==
  [][/\ obs'.ev \in {"StopNotificationsReject", "ConnectTeardownReject"}
          => TeardownCompletes
     /\ (/\ obs'.ev \in {"RequestDeviceReject", "GattReject", "DisconnectClick"}
         /\ notifyChar # NoChar /\ ~notifyChar.live /\ notifyHandler # Undefined)
          => TeardownCompletes]_vars
C19_Witness ==
  /\ obs.ev = "StopNotificationsReject" /\ obs.calls = 1
  /\ device = Undefined /\ dpc = "idle" /\ Live(disconnectListeners) = 0

\* C20: decodeOdometry fails on every payload of fewer than twelve bytes
\* and on none of twelve or more, and what it returns is what it returns
\* for the first twelve bytes alone.
C20_DecodeBySize ==
  obs.ev = "decodeOdometry"
    => IF Len(obs.view) < OdometryBytes
       THEN ~obs.result.ok
       ELSE /\ obs.result.ok
            /\ obs.result = decodeOdometry(SubSeq(obs.view, 1, OdometryBytes))
C20_Witness ==
  /\ obs.ev = "decodeOdometry" /\ Len(obs.view) > OdometryBytes
  /\ obs.result.ok /\ obs.result.yaw # 0 /\ obs.view[Len(obs.view)] # 0

\* C21: the settling of a send that a stopped loop issued (no send of the
\* running loop is pending, or the running loop and its pending sends are as
\* before) leaves the running loop alone: its busy flag and its timer are
\* unchanged and no alert is shown.
C21_StaleSettleLeavesLaterLoop ==
  [][(/\ obs'.ev = "WriteSettle"
      /\ writeLoopId # Null
      /\ \/ CurrentLoopWrites = 0
         \/ (writeLoopId' # Null /\ CurrentLoopWrites' = CurrentLoopWrites))
       => /\ writeBusy' = writeBusy
          /\ writeLoopId' = writeLoopId
          /\ obs'.alerts = 0]_vars

\* C22: whenever the link is not shown as connected, no loop timer is set
\* and the step that led there issued no send.
C22_LoopOnlyWhileConnected ==
  ~isConnected => (writeLoopId = Null /\ obs.sends = 0)
C22_Witness ==
  /\ obs.ev = "Drop" /\ ~isConnected /\ writeLoopId = Null
  /\ device # Undefined /\ InFlight(inflight) > 0

\* C23: every connect attempt comes to its end, whichever way (connected,
\* failed and torn down, or cancelled): connect() and disconnectDevice() have
\* returned, isConnecting and isDisconnecting are false and the user's
\* disconnect flag is false.
C23_ConnectAttemptEnds ==
  isConnecting ~> (/\ ~isConnecting /\ ~isDisconnecting /\ ~userDisconnectRef
                   /\ cpc = "idle" /\ dpc = "idle")
C23_Witness ==
  /\ obs.ev \in {"ConnectTeardownSettle", "ConnectTeardownReject"}
  /\ ~isConnecting /\ ~isDisconnecting /\ ~userDisconnectRef /\ ~isConnected
  /\ cpc = "idle" /\ dpc = "idle"

====
